---- MODULE Spec2Model ----
(***************************************************************************)
(* Model of the n8n DAV nodes (WebDAV, CalDAV, CardDAV): the batch loop of *)
(* execute(), the per-item dispatch, doRequest and the path/URL helpers.   *)
(* Strings are sequences of one-character strings, so that trimming,       *)
(* prefix tests, splitting and percent-coding are computed, not assumed.   *)
(***************************************************************************)
EXTENDS Integers, Sequences, FiniteSets, TLC

(***************************************************************************)
(* Bounds of the model.                                                    *)
(***************************************************************************)
MaxItems == 2

(***************************************************************************)
(* Character-level helpers (JavaScript string primitives).                 *)
(***************************************************************************)
Lower(c) ==
    CASE c = "H" -> "h"
      [] c = "T" -> "t"
      [] c = "P" -> "p"
      [] c = "S" -> "s"
      [] c = "A" -> "a"
      [] c = "E" -> "e"
      [] c = "I" -> "i"
      [] c = "N" -> "n"
      [] c = "V" -> "v"
      [] c = "L" -> "l"
      [] c = "D" -> "d"
      [] c = "U" -> "u"
      [] c = "R" -> "r"
      [] OTHER -> c

LowerStr(s) == [i \in 1..Len(s) |-> Lower(s[i])]

StartsWith(s, p) == Len(s) >= Len(p) /\ SubSeq(s, 1, Len(p)) = p

EndsWith(s, p) == Len(s) >= Len(p) /\ SubSeq(s, Len(s) - Len(p) + 1, Len(s)) = p

Drop(s, n) == SubSeq(s, n + 1, Len(s))

\* s.includes(p)
Includes(s, p) == \E i \in 0..(Len(s) - Len(p)) : SubSeq(s, i + 1, i + Len(p)) = p

RECURSIVE TrimLeft(_)
TrimLeft(s) == IF s # <<>> /\ Head(s) = " " THEN TrimLeft(Tail(s)) ELSE s

RECURSIVE TrimRight(_)
TrimRight(s) ==
    IF s # <<>> /\ s[Len(s)] = " " THEN TrimRight(SubSeq(s, 1, Len(s) - 1)) ELSE s

Trim(s) == TrimRight(TrimLeft(s))

\* index of the first character of s that lies in the set cs, or Len(s)+1
RECURSIVE IndexOfAny(_, _, _)
IndexOfAny(s, cs, i) ==
    IF i > Len(s) THEN Len(s) + 1
    ELSE IF s[i] \in cs THEN i ELSE IndexOfAny(s, cs, i + 1)

\* index of the last occurrence of character c in s, or 0
RECURSIVE LastIndexOf(_, _, _)
LastIndexOf(s, c, i) ==
    IF i = 0 THEN 0 ELSE IF s[i] = c THEN i ELSE LastIndexOf(s, c, i - 1)

\* s.split('/')
RECURSIVE Split(_)
Split(s) ==
    LET k == IndexOfAny(s, {"/"}, 1)
    IN  IF k > Len(s) THEN <<s>>
        ELSE <<SubSeq(s, 1, k - 1)>> \o Split(Drop(s, k))

\* segs.join('/')
RECURSIVE Join(_)
Join(segs) ==
    IF Len(segs) = 0 THEN <<>>
    ELSE IF Len(segs) = 1 THEN segs[1]
    ELSE segs[1] \o <<"/">> \o Join(Tail(segs))

(***************************************************************************)
(* Percent-coding: encodeURIComponent / decodeURIComponent restricted to   *)
(* the characters that occur in the inputs of the model.                   *)
(***************************************************************************)
HexDigits == {"0", "1", "2", "3", "4", "5", "6", "7", "8", "9",
              "A", "B", "C", "D", "E", "F", "a", "b", "c", "d", "e", "f"}

\* characters encodeURIComponent escapes, with their escape
Escaped == {" ", "&", "%", ":", "@", "?", "#", "/"}

EscapeOf(c) ==
    CASE c = " " -> <<"%", "2", "0">>
      [] c = "&" -> <<"%", "2", "6">>
      [] c = "%" -> <<"%", "2", "5">>
      [] c = ":" -> <<"%", "3", "A">>
      [] c = "@" -> <<"%", "4", "0">>
      [] c = "?" -> <<"%", "3", "F">>
      [] c = "#" -> <<"%", "2", "3">>
      [] c = "/" -> <<"%", "2", "F">>
      [] OTHER -> <<c>>

RECURSIVE encodeURIComponent(_)
encodeURIComponent(s) ==
    IF s = <<>> THEN <<>> ELSE EscapeOf(Head(s)) \o encodeURIComponent(Tail(s))

\* the character a two-digit escape stands for (upper- or lower-case hex);
\* "<other>" stands for any character outside the alphabet of the model
UnescapeOf(h1, h2) ==
    LET u == <<h1, IF h2 = "a" THEN "A" ELSE IF h2 = "f" THEN "F" ELSE h2>>
    IN  CASE u = <<"2", "0">> -> " "
          [] u = <<"2", "6">> -> "&"
          [] u = <<"2", "5">> -> "%"
          [] u = <<"3", "A">> -> ":"
          [] u = <<"4", "0">> -> "@"
          [] u = <<"3", "F">> -> "?"
          [] u = <<"2", "3">> -> "#"
          [] u = <<"2", "F">> -> "/"
          [] OTHER -> "<other>"

\* decodeURIComponent: [ok |-> FALSE] stands for the URIError it throws on a
\* '%' that is not followed by two hexadecimal digits
RECURSIVE decodeURIComponent(_)
decodeURIComponent(s) ==
    IF s = <<>> THEN [ok |-> TRUE, val |-> <<>>]
    ELSE IF Head(s) # "%"
         THEN LET r == decodeURIComponent(Tail(s))
              IN  [ok |-> r.ok, val |-> <<Head(s)>> \o r.val]
         ELSE IF Len(s) >= 3 /\ s[2] \in HexDigits /\ s[3] \in HexDigits
              THEN LET r == decodeURIComponent(Drop(s, 3))
                   IN  [ok |-> r.ok, val |-> <<UnescapeOf(s[2], s[3])>> \o r.val]
              ELSE [ok |-> FALSE, val |-> <<>>]

(***************************************************************************)
(* URL helpers.                                                            *)
(***************************************************************************)
S_http == <<"h", "t", "t", "p", ":", "/", "/">>
S_https == <<"h", "t", "t", "p", "s", ":", "/", "/">>

\* /^https?:\/\//i.test(s)
IsAbsoluteUrl(s) ==
    \/ StartsWith(LowerStr(s), S_http)
    \/ StartsWith(LowerStr(s), S_https)

\* new URL(u) for an http(s) URL: scheme, host (lower-cased, userinfo and
\* default port removed) and the rest; ok = FALSE is the TypeError 'Invalid URL'
ParseUrl(u) ==
    LET l      == LowerStr(u)
        scheme == IF StartsWith(l, S_https) THEN S_https ELSE S_http
        rest   == Drop(u, Len(scheme))
        k      == IndexOfAny(rest, {"/", "?", "#"}, 1)
        auth   == SubSeq(rest, 1, k - 1)
        tailp  == Drop(rest, k - 1)
        at     == LastIndexOf(auth, "@", Len(auth))
        hostp  == LowerStr(Drop(auth, at))
        defp   == IF scheme = S_https THEN <<":", "4", "4", "3">> ELSE <<":", "8", "0">>
        host   == IF EndsWith(hostp, defp)
                  THEN SubSeq(hostp, 1, Len(hostp) - Len(defp)) ELSE hostp
    IN  [ok     |-> IsAbsoluteUrl(u) /\ host # <<>> /\ Head(host) # ":",
         origin |-> scheme \o host,
         href   |-> scheme \o SubSeq(auth, 1, at) \o host
                    \o (IF tailp = <<>> \/ Head(tailp) # "/" THEN <<"/">> ELSE <<>>) \o tailp]

Origin(u) == ParseUrl(u).origin

(***************************************************************************)
(* Strings of the model.                                                   *)
(***************************************************************************)
S_slash == <<"/">>
S_ics == <<".", "i", "c", "s">>
S_vcf == <<".", "v", "c", "f">>

Nodes == {"WebDav", "CalDav", "CardDav"}

\* 'WebDAV' / 'CalDAV' / 'CardDAV' in the base text of toFriendlyError
ProtocolLabel(n) ==
    CASE n = "WebDav" -> "WebDAV" [] n = "CalDav" -> "CalDAV" [] OTHER -> "CardDAV"

\* the value of the 'resource' parameter of each node
ResourceOf(n) ==
    CASE n = "WebDav" -> "file" [] n = "CalDav" -> "calendar" [] OTHER -> "addressbook"

Operations(n) ==
    CASE n = "WebDav" -> {"get", "put", "propfind", "mkcol", "delete", "move", "copy"}
      [] n = "CalDav" -> {"getCalendars", "getEvents", "createEvent", "updateEvent",
                          "deleteEvent"}
      [] OTHER -> {"getAddressBooks", "getContacts", "createContact", "updateContact",
                   "deleteContact"}

\* an absent number (undefined status, unset context.itemIndex) and an absent string
Absent == -1
Undefined == <<"<undefined>">>

(***************************************************************************)
(* Errors.  A message is a record of the parts the message text is built   *)
(* from; an exception carries its class, its message and its context.      *)
(***************************************************************************)
MessageWithoutRequest(kind, op, resource, u, status, text) ==
    [kind |-> kind, protocol |-> "", op |-> "", resource |-> "", url |-> <<>>,
     status |-> status, text |-> text]

Message(kind, op, resource, u, status, text) ==
    [kind |-> kind, protocol |-> "", op |-> op, resource |-> resource, url |-> u,
     status |-> status, text |-> text]

PlainMessage(kind) == Message(kind, "", "", <<>>, Absent, <<>>)

\* new NodeOperationError(node, message, { itemIndex }): context is always
\* an object, context.itemIndex is set only when the option is given
NodeOperationError(msg, idx) ==
    [name |-> "NodeOperationError", message |-> msg, hasContext |-> TRUE, itemIndex |-> idx]

\* a built-in error (TypeError, URIError, RangeError): no context property
BuiltinError(name, kind) ==
    [name |-> name, message |-> PlainMessage(kind), hasContext |-> FALSE, itemIndex |-> Absent]

NoError == BuiltinError("none", "none")

(***************************************************************************)
(* PathNormalizer.                                                         *)
(***************************************************************************)
EncodeSegmentWithoutDecode(seg) == encodeURIComponent(seg)

\* seg => encodeURIComponent(decodeURIComponent(seg)), or encodeURIComponent(seg)
\* when decoding throws; '' stays ''
EncodeSegment(seg) ==
    IF seg = <<>> THEN <<>>
    ELSE LET d == decodeURIComponent(seg)
         IN  IF d.ok THEN encodeURIComponent(d.val) ELSE encodeURIComponent(seg)

EncodePathKeepingLeadingSlash(p) ==
    LET segs == Split(p)
    IN  S_slash \o Join([i \in 1..Len(segs) |-> EncodeSegment(segs[i])])

\* raw = p.startsWith('/') ? p.slice(1) : p; raw.split('/').map(...).join('/')
EncodePath(p) ==
    LET raw  == IF StartsWith(p, S_slash) THEN Drop(p, 1) ELSE p
        segs == Split(raw)
    IN  S_slash \o Join([i \in 1..Len(segs) |-> EncodeSegment(segs[i])])

\* the strict variant (WebDAV, CardDAV) throws on an absolute URL
normalizePathStrict(p) ==
    IF p = <<>> \/ p = S_slash THEN [ok |-> TRUE, val |-> S_slash]
    ELSE IF IsAbsoluteUrl(p) THEN [ok |-> FALSE, val |-> p]
    ELSE [ok |-> TRUE, val |-> EncodePath(p)]

\* the permissive variant (CalDAV) passes an absolute URL through
normalizePathPermissive(p) ==
    IF p = <<>> \/ p = S_slash THEN [ok |-> TRUE, val |-> S_slash]
    ELSE IF IsAbsoluteUrl(p) THEN [ok |-> TRUE, val |-> p]
    ELSE [ok |-> TRUE, val |-> EncodePath(p)]

normalizePath(n, p) ==
    IF n = "CalDav" THEN normalizePathPermissive(p) ELSE normalizePathStrict(p)

AbsoluteUrlError ==
    [name |-> "NodeOperationError", message |-> PlainMessage("AbsoluteUrlsNotAllowed"),
     hasContext |-> TRUE, itemIndex |-> Absent]

\* baseUrl.replace(/\/$/, '')
BaseRootOf(baseUrl) ==
    IF EndsWith(baseUrl, S_slash) THEN SubSeq(baseUrl, 1, Len(baseUrl) - 1) ELSE baseUrl

BaseUrlInvalidNoProtocolTest(c) == ~c.present \/ Trim(c.baseUrl) = <<>>

\* !baseUrl || !/^https?:\/\//i.test(baseUrl), on the trimmed credential
BaseUrlInvalid(c) ==
    \/ ~c.present
    \/ Trim(c.baseUrl) = <<>>
    \/ ~IsAbsoluteUrl(Trim(c.baseUrl))

(***************************************************************************)
(* ErrorTranslator.                                                        *)
(***************************************************************************)
StatusOfTopLevelOnly(e) == e.statusCode

\* e?.statusCode ?? e?.response?.status ?? e?.cause?.response?.status
StatusOf(e) ==
    IF e.statusCode # Absent THEN e.statusCode
    ELSE IF e.responseStatus # Absent THEN e.responseStatus
    ELSE e.causeStatus

\* e?.response?.statusText ?? e?.cause?.response?.statusText
StatusTextOf(e) ==
    IF e.responseStatusText # Undefined THEN e.responseStatusText ELSE e.causeStatusText

S_invalidUrl == <<"i", "n", "v", "a", "l", "i", "d", " ", "u", "r", "l">>

toFriendlyErrorWithoutHostRule(n, operation, e, u, resource) ==
    LET base(kind, st, tx) ==
            [Message(kind, operation, resource, u, st, tx) EXCEPT !.protocol = ProtocolLabel(n)]
        msg == IF e.message # <<>> THEN e.message ELSE e.asString
    IN  IF Includes(LowerStr(msg), S_invalidUrl) THEN base("InvalidURL", Absent, <<>>)
        ELSE IF e.code = "ECONNREFUSED" THEN base("ConnectionRefused", Absent, <<>>)
        ELSE IF e.code = "ETIMEDOUT" THEN base("ConnectionTimedOut", Absent, <<>>)
        ELSE IF StatusOf(e) # Absent /\ StatusOf(e) # 0
             THEN base("HTTP", StatusOf(e),
                       IF StatusTextOf(e) = Undefined THEN <<>> ELSE StatusTextOf(e))
        ELSE base("Original", Absent, msg)

\* the message toFriendlyError returns, by the rule that fired
toFriendlyError(n, operation, e, u, resource) ==
    LET base(kind, st, tx) ==
            [Message(kind, operation, resource, u, st, tx) EXCEPT !.protocol = ProtocolLabel(n)]
        \* String(e?.message || e)
        msg == IF e.message # <<>> THEN e.message ELSE e.asString
    IN  IF Includes(LowerStr(msg), S_invalidUrl) THEN base("InvalidURL", Absent, <<>>)
        ELSE IF e.code = "ENOTFOUND" THEN base("HostNotFound", Absent, <<>>)
        ELSE IF e.code = "ECONNREFUSED" THEN base("ConnectionRefused", Absent, <<>>)
        ELSE IF e.code = "ETIMEDOUT" THEN base("ConnectionTimedOut", Absent, <<>>)
        ELSE IF StatusOf(e) # Absent /\ StatusOf(e) # 0
             THEN base("HTTP", StatusOf(e),
                       IF StatusTextOf(e) = Undefined THEN <<>> ELSE StatusTextOf(e))
        ELSE base("Original", Absent, msg)

(***************************************************************************)
(* ResponseExtractor.                                                      *)
(***************************************************************************)
\* the blocks a parse loop keeps: those with an href (and, for events and
\* contacts, with inline data)
RECURSIVE KeptBlocks(_, _)
KeptBlocks(xml, needData) ==
    IF xml = <<>> THEN <<>>
    ELSE LET b == Head(xml)
         IN  (IF b.hasHref /\ (~needData \/ b.hasData) THEN <<b>> ELSE <<>>)
             \o KeptBlocks(Tail(xml), needData)

\* parse*Response: ok = FALSE is the URIError of decodeURIComponent(href)
ParseResponse(xml, needData) ==
    LET kept == KeptBlocks(xml, needData)
    IN  [ok |-> \A i \in 1..Len(kept) : decodeURIComponent(kept[i].href).ok,
         records |-> [i \in 1..Len(kept) |->
                        [href |-> decodeURIComponent(kept[i].href).val,
                         data |-> kept[i].hasData]]]

(***************************************************************************)
(* RequestComposer / OperationDispatcher.                                  *)
(***************************************************************************)
Request(idx, method, u, display, dest, ctype, ifMatch, depth, overwrite) ==
    [itemIndex |-> idx, method |-> method, url |-> u, displayUrl |-> display,
     destination |-> dest, contentType |-> ctype, ifMatch |-> ifMatch, depth |-> depth,
     overwrite |-> overwrite]

NoRequest == Request(Absent, "", <<>>, <<>>, <<>>, "", FALSE, "", "")

\* doRequest, up to the send: the URL handed to the HTTP capability and the
\* URL kept for error messages (CalDAV keeps none and reports opts.url);
\* normalized is normalizePath(urlStr), used when urlStr is not absolute
UrlPair(n, root, urlStr, absolute, normalized) ==
    [url |-> IF absolute THEN urlStr ELSE root \o normalized,
     display |-> IF absolute THEN urlStr
                 ELSE IF n = "CalDav" THEN root \o normalized ELSE normalized]

ComposeUrl(n, root, urlStr) ==
    UrlPair(n, root, urlStr, IsAbsoluteUrl(urlStr), normalizePath(n, urlStr).val)

\* outcome of the synchronous part of one item: the parameters read, whether
\* the input buffer was read, and either a fault or the request to send
FaultAfterBufferRead(reads, buffer, err) ==
    [reads |-> reads, buffer |-> TRUE, fault |-> TRUE, error |-> err, req |-> NoRequest]

Fault(reads, buffer, err) ==
    [reads |-> reads, buffer |-> buffer, fault |-> TRUE, error |-> err, req |-> NoRequest]

Send(reads, buffer, req) ==
    [reads |-> reads, buffer |-> buffer, fault |-> FALSE, error |-> NoError, req |-> req]

\* doRequest(opts) with opts.url = urlStr
SendUrl(idx, reads, buffer, cu, method, dest, ctype, ifMatch, depth, ow) ==
    Send(reads, buffer,
         Request(idx, method, cu.url, cu.display, dest, ctype, ifMatch, depth, ow))

SendNormalized(n, root, idx, reads, buffer, np, method, dest, ctype, ifMatch, depth, ow) ==
    IF ~np.ok THEN Fault(reads, buffer, AbsoluteUrlError)
    ELSE SendUrl(idx, reads, buffer, ComposeUrl(n, root, np.val), method, dest, ctype,
                 ifMatch, depth, ow)

\* a request whose url option is normalizePath(path): the call throws before
\* doRequest when the strict variant rejects the path
SendPath(n, root, idx, reads, buffer, path, method, dest, ctype, ifMatch, depth, ow) ==
    SendNormalized(n, root, idx, reads, buffer, normalizePath(n, path), method, dest, ctype,
                   ifMatch, depth, ow)

UnsupportedOperation(op) ==
    Fault(<<"operation">>, FALSE,
          NodeOperationError(Message("OperationNotSupported", op, "", <<>>, Absent, <<>>), Absent))

AbsoluteDestinationUnchecked(destUrl, base) ==
    IF ~destUrl.ok \/ ~base.ok
    THEN [ok |-> FALSE, error |-> BuiltinError("TypeError", "InvalidURL"), val |-> <<>>]
    ELSE [ok |-> TRUE, error |-> NoError, val |-> destUrl.href]

\* move / copy: the Destination header, or the fault that precedes the request
AbsoluteDestination(destUrl, base) ==
    IF ~destUrl.ok \/ ~base.ok
    THEN [ok |-> FALSE, error |-> BuiltinError("TypeError", "InvalidURL"), val |-> <<>>]
    ELSE IF destUrl.origin # base.origin
    THEN [ok |-> FALSE,
          error |-> NodeOperationError(PlainMessage("DestinationNotSameServer"), Absent),
          val |-> <<>>]
    ELSE [ok |-> TRUE, error |-> NoError, val |-> destUrl.href]

DestinationHeader(n, root, destination) ==
    IF IsAbsoluteUrl(destination)
    THEN AbsoluteDestination(ParseUrl(destination), ParseUrl(root))
    ELSE [ok |-> TRUE, error |-> NoError, val |-> root \o normalizePath(n, destination).val]

\* the request of move / copy once the Destination header is known
SendWithDestination(n, root, idx, reads, p, method, dh) ==
    IF ~dh.ok THEN Fault(reads, FALSE, dh.error)
    ELSE SendPath(n, root, idx, reads, FALSE, p.path, method, dh.val, "", FALSE,
                  "", IF p.overwrite THEN "T" ELSE "F")

WebDavCompose(root, idx, p, item) ==
    LET n == "WebDav"
        op == p.operation
    IN  CASE op = "get" ->
               SendPath(n, root, idx, <<"operation", "path">>, FALSE, p.path,
                        "GET", <<>>, "", FALSE, "", "")
          [] op = "put" ->
               LET reads == <<"operation", "path", "binaryPropertyName">>
               IN  IF ~item.hasBinary
                   THEN Fault(reads, FALSE,
                              NodeOperationError(PlainMessage("MissingBinaryProperty"), idx))
                   ELSE SendPath(n, root, idx, reads, TRUE, p.path, "PUT", <<>>,
                                 IF item.mimeType = "" THEN "application/octet-stream"
                                 ELSE item.mimeType, FALSE, "", "")
          [] op = "propfind" ->
               LET reads == <<"operation", "path", "depth">>
               IN  IF p.path = S_slash
                   THEN SendUrl(idx, reads, FALSE, ComposeUrl(n, root, S_slash), "PROPFIND",
                                <<>>, "application/xml", FALSE, p.depth, "")
                   ELSE SendPath(n, root, idx, reads, FALSE, p.path, "PROPFIND", <<>>,
                                 "application/xml", FALSE, p.depth, "")
          [] op = "mkcol" ->
               SendPath(n, root, idx, <<"operation", "path">>, FALSE, p.path,
                        "MKCOL", <<>>, "", FALSE, "", "")
          [] op = "delete" ->
               SendPath(n, root, idx, <<"operation", "path">>, FALSE, p.path,
                        "DELETE", <<>>, "", FALSE, "", "")
          [] op \in {"move", "copy"} ->
               SendWithDestination(n, root, idx,
                                   <<"operation", "path", "destination", "overwrite">>, p,
                                   IF op = "move" THEN "MOVE" ELSE "COPY",
                                   DestinationHeader(n, root, p.destination))
          [] OTHER -> UnsupportedOperation(op)

\* if (!calendarPath.startsWith('/')) calendarPath = `/${calendarPath}`
LeadingSlash(path) == IF StartsWith(path, S_slash) THEN path ELSE S_slash \o path

\* new Date(x).toISOString() throws a RangeError on an invalid date
CalDavCompose(root, idx, p, item) ==
    LET n == "CalDav"
        op == p.operation
        calendarPath == LeadingSlash(p.path)
        child == calendarPath \o S_slash \o p.id \o S_ics
    IN  CASE op = "getCalendars" ->
               SendUrl(idx, <<"operation", "calendarHomeSet">>, FALSE,
                       ComposeUrl(n, root, normalizePath(n, p.path).val), "PROPFIND", <<>>,
                       "application/xml", FALSE, "1", "")
          [] op = "getEvents" ->
               LET reads == <<"operation", "calendarPath", "timeRange">>
                            \o (IF p.timeRange = "range" THEN <<"startDate", "endDate">>
                                ELSE IF p.timeRange = "date" THEN <<"date">> ELSE <<>>)
               IN  IF p.timeRange \in {"range", "date"} /\ ~p.datesValid
                   THEN Fault(reads, FALSE, BuiltinError("RangeError", "InvalidTimeValue"))
                   ELSE SendPath(n, root, idx, reads, FALSE, calendarPath, "REPORT", <<>>,
                                 "application/xml", FALSE, "", "")
          [] op = "createEvent" ->
               SendPath(n, root, idx, <<"operation", "calendarPath", "eventId", "eventData">>,
                        FALSE, child, "PUT", <<>>, "text/calendar", FALSE, "", "")
          [] op = "updateEvent" ->
               SendPath(n, root, idx, <<"operation", "calendarPath", "eventId", "eventData">>,
                        FALSE, child, "PUT", <<>>, "text/calendar", TRUE, "", "")
          [] op = "deleteEvent" ->
               SendPath(n, root, idx, <<"operation", "calendarPath", "eventId">>,
                        FALSE, child, "DELETE", <<>>, "", FALSE, "", "")
          [] OTHER -> UnsupportedOperation(op)

\* the CardDAV cases that normalize addressBookPath first; book is
\* normalizePath(addressBookPath)
CardDavWithBook(root, idx, p, book) ==
    LET n == "CardDav"
        op == p.operation
        child == book.val \o S_slash \o p.id \o S_vcf
        reads == CASE op = "getContacts" ->
                        <<"operation", "addressBookPath">>
                        \o (IF book.ok THEN <<"filter">> ELSE <<>>)
                        \o (IF book.ok /\ p.filter \in {"name", "email"}
                            THEN <<"searchTerm">> ELSE <<>>)
                   [] op = "deleteContact" -> <<"operation", "addressBookPath", "contactId">>
                   [] OTHER -> <<"operation", "addressBookPath", "contactId", "contactData">>
    IN  IF ~book.ok THEN Fault(reads, FALSE, AbsoluteUrlError)
        ELSE IF op = "getContacts"
        THEN SendUrl(idx, reads, FALSE, ComposeUrl(n, root, book.val), "REPORT", <<>>,
                     "application/xml", FALSE, "", "")
        ELSE SendPath(n, root, idx, reads, FALSE, child,
                      IF op = "deleteContact" THEN "DELETE" ELSE "PUT", <<>>,
                      IF op = "deleteContact" THEN "" ELSE "text/vcard",
                      op = "updateContact", "", "")

CardDavCompose(root, idx, p, item) ==
    LET n == "CardDav"
        op == p.operation
    IN  CASE op = "getAddressBooks" ->
               SendPath(n, root, idx, <<"operation", "addressBookHomeSet">>, FALSE, p.path,
                        "PROPFIND", <<>>, "application/xml", FALSE, "1", "")
          [] op \in {"getContacts", "createContact", "updateContact", "deleteContact"} ->
               CardDavWithBook(root, idx, p, normalizePath(n, p.path))
          [] OTHER -> UnsupportedOperation(op)

Compose(n, root, idx, p, item) ==
    CASE n = "WebDav" -> WebDavCompose(root, idx, p, item)
      [] n = "CalDav" -> CalDavCompose(root, idx, p, item)
      [] OTHER -> CardDavCompose(root, idx, p, item)

(***************************************************************************)
(* Handling of a response that arrived (the extract / format step).        *)
(***************************************************************************)
IsJsonContentTypeExact(ct) == ct = "application/json"

\* contentType.toLowerCase().includes('application/json')
IsJsonContentType(ct) == ct \in {"application/json", "Application/JSON; charset=utf-8"}

Success2xx(status) == status >= 200 /\ status < 300

Failed(err) == [fault |-> TRUE, error |-> err, json |-> <<>>, binary |-> FALSE]

Formatted(json, binary) == [fault |-> FALSE, error |-> NoError, json |-> json, binary |-> binary]

\* the json of the record WebDAV pushes, or the fault raised instead
WebDavHandle(idx, p, item, resp) ==
    LET op == p.operation
    IN  CASE op = "get" ->
               IF ~resp.hasData
               THEN Failed(NodeOperationError(
                        Message("NoDataReturned", "", "", p.path, Absent, <<>>), idx))
               ELSE IF resp.contentType # "" /\ IsJsonContentType(resp.contentType)
               THEN Failed(NodeOperationError(
                        Message("ExpectedBinaryGotJson", "", "", p.path, Absent, <<>>), idx))
               ELSE Formatted([path |-> p.path,
                               contentType |-> IF resp.contentType = ""
                                               THEN "application/octet-stream"
                                               ELSE resp.contentType,
                               statusCode |-> resp.status], TRUE)
          [] op = "put" ->
               Formatted([success |-> Success2xx(resp.status), statusCode |-> resp.status,
                          path |-> p.path,
                          contentType |-> IF item.mimeType = "" THEN "application/octet-stream"
                                          ELSE item.mimeType], FALSE)
          [] op = "propfind" ->
               LET parsed == ParseResponse(resp.xml, FALSE)
               IN  IF ~parsed.ok THEN Failed(BuiltinError("URIError", "URIMalformed"))
                   ELSE Formatted([properties |-> parsed.records,
                                   statusCode |-> resp.status], FALSE)
          [] op = "mkcol" ->
               Formatted([success |-> resp.status = 201, statusCode |-> resp.status,
                          path |-> p.path], FALSE)
          [] op = "delete" ->
               Formatted([success |-> Success2xx(resp.status), statusCode |-> resp.status,
                          path |-> p.path], FALSE)
          [] OTHER ->
               Formatted([success |-> Success2xx(resp.status), statusCode |-> resp.status,
                          sourcePath |-> p.path, destinationPath |-> p.destination], FALSE)

\* the fields CalDAV assigns to item.json, or the fault raised instead
CalDavHandle(idx, p, item, resp) ==
    LET op == p.operation
    IN  CASE op = "getCalendars" ->
               LET parsed == ParseResponse(resp.xml, FALSE)
               IN  IF ~parsed.ok THEN Failed(BuiltinError("URIError", "URIMalformed"))
                   ELSE Formatted([calendars |-> parsed.records,
                                   statusCode |-> resp.status], FALSE)
          [] op = "getEvents" ->
               LET parsed == ParseResponse(resp.xml, TRUE)
               IN  IF ~parsed.ok THEN Failed(BuiltinError("URIError", "URIMalformed"))
                   ELSE Formatted([events |-> parsed.records,
                                   statusCode |-> resp.status], FALSE)
          [] OTHER ->
               Formatted([success |-> Success2xx(resp.status), statusCode |-> resp.status,
                          eventId |-> p.id, calendarPath |-> LeadingSlash(p.path)], FALSE)

\* the fields CardDAV assigns to item.json, or the fault raised instead
CardDavHandle(idx, p, item, resp) ==
    LET op == p.operation
    IN  CASE op = "getAddressBooks" ->
               LET parsed == ParseResponse(resp.xml, FALSE)
               IN  IF ~parsed.ok THEN Failed(BuiltinError("URIError", "URIMalformed"))
                   ELSE Formatted([addressBooks |-> parsed.records,
                                   statusCode |-> resp.status], FALSE)
          [] op = "getContacts" ->
               LET parsed == ParseResponse(resp.xml, TRUE)
               IN  IF ~parsed.ok THEN Failed(BuiltinError("URIError", "URIMalformed"))
                   ELSE Formatted([contacts |-> parsed.records,
                                   statusCode |-> resp.status], FALSE)
          [] OTHER ->
               Formatted([success |-> Success2xx(resp.status), statusCode |-> resp.status,
                          contactId |-> p.id,
                          addressBookPath |-> normalizePath("CardDav", p.path).val], FALSE)

Handle(n, idx, p, item, resp) ==
    CASE n = "WebDav" -> WebDavHandle(idx, p, item, resp)
      [] n = "CalDav" -> CalDavHandle(idx, p, item, resp)
      [] OTHER -> CardDavHandle(idx, p, item, resp)

(***************************************************************************)
(* Inputs of the model: credentials, node parameters, items, responses.    *)
(***************************************************************************)
S_hostA == <<"a">>
S_baseA == S_https \o S_hostA
S_baseASlash == S_https \o S_hostA \o S_slash
S_baseUpper == <<"H", "T", "T", "P", ":", "/", "/", "A", "/", "d", "/">>
S_baseASlashes == S_https \o S_hostA \o S_slash \o S_slash
S_noProtocol == <<"a", ".", "e">>
S_blank == <<" ", " ">>
S_otherOrigin == S_https \o <<"e", "/", "x">>
S_sameOrigin == S_https \o <<"a", "/", "x">>
S_sameOriginUpper == <<"H", "T", "T", "P", "S", ":", "/", "/", "A", ":", "4", "4", "3", "/", "x">>
S_userinfo == S_https \o <<"a", "@", "e", "/", "x">>
S_dir == <<"/", "d">>
S_spaced == <<"d", " ", "x">>
S_coll == <<"/", "c", "/">>
S_id == <<"i">>
S_badHref == <<"/", "%">>
S_href == <<"/", "d", "%", "2", "0", "x">>

Credential(present, baseUrl) == [present |-> present, baseUrl |-> baseUrl]

InvalidCreds == {Credential(FALSE, <<>>), Credential(TRUE, <<>>), Credential(TRUE, S_blank),
                 Credential(TRUE, S_noProtocol)}

BatchCreds == InvalidCreds \cup {Credential(TRUE, S_baseA), Credential(TRUE, <<" ">> \o S_baseASlash)}

Params(op, path, destination, id) ==
    [operation |-> op, path |-> path, destination |-> destination, id |-> id,
     overwrite |-> FALSE, depth |-> "1", timeRange |-> "all", datesValid |-> TRUE,
     filter |-> "all"]

\* parameter values of the batch runs: per node an operation that is sent, one
\* whose path or destination is an absolute URL, and an unknown operation
BatchParams(n) ==
    CASE n = "WebDav" ->
           {Params("get", S_spaced, <<>>, <<>>),
            Params("propfind", S_slash, <<>>, <<>>),
            Params("move", S_dir, S_otherOrigin, <<>>),
            Params("bogus", <<>>, <<>>, <<>>)}
      [] n = "CalDav" ->
           {Params("getCalendars", S_coll, <<>>, <<>>),
            Params("getCalendars", S_otherOrigin, <<>>, <<>>),
            Params("createEvent", S_coll, <<>>, S_id),
            Params("bogus", <<>>, <<>>, <<>>)}
      [] OTHER ->
           {Params("getAddressBooks", S_coll, <<>>, <<>>),
            Params("getContacts", S_otherOrigin, <<>>, <<>>),
            Params("createContact", S_coll, <<>>, S_id),
            Params("bogus", <<>>, <<>>, <<>>)}

RawError(message, code, statusCode, responseStatus, causeStatus, respText, causeText) ==
    [message |-> message, asString |-> <<"E", "r", "r", "o", "r">>, code |-> code,
     statusCode |-> statusCode, responseStatus |-> responseStatus,
     causeStatus |-> causeStatus, responseStatusText |-> respText,
     causeStatusText |-> causeText]

NoRawError == RawError(<<>>, "", Absent, Absent, Absent, Undefined, Undefined)

Block(hasHref, href, hasData) == [hasHref |-> hasHref, href |-> href, hasData |-> hasData]

Response(fails, err, status, hasData, ctype, xml) ==
    [fails |-> fails, error |-> err, status |-> status, hasData |-> hasData,
     contentType |-> ctype, xml |-> xml]

\* a multi-status answer with data (a block with href and inline data, one
\* without href, one with href only), an answer without data whose href is not
\* a valid percent-encoding, and a transport failure
BatchResponses ==
    {Response(FALSE, NoRawError, 207, TRUE, "text/plain",
              <<Block(TRUE, S_href, TRUE), Block(FALSE, <<>>, FALSE),
                Block(TRUE, S_dir, FALSE)>>),
     Response(FALSE, NoRawError, 200, FALSE, "", <<Block(TRUE, S_badHref, TRUE)>>),
     Response(TRUE, RawError(<<"x">>, "ENOTFOUND", Absent, Absent, Absent, Undefined, Undefined),
              Absent, FALSE, "", <<>>)}

\* the input item with payload tag i; owner (not a field of the program) is the
\* index of the item a record was made for
InputItem(i, hasBinary) ==
    [ref |-> i, hasBinary |-> hasBinary, mimeType |-> "text/plain",
     isError |-> FALSE, error |-> NoError, pairedItem |-> Absent, owner |-> i - 1]

(***************************************************************************)
(* State.                                                                  *)
(***************************************************************************)
VARIABLES
    node,            \* which node's execute() runs
    continueOnFail,  \* this.continueOnFail()
    creds,           \* what getCredentials('davApi') returns
    params,          \* params[i+1]: the node parameters the host resolves for item i
    server,          \* server[i+1]: how the HTTP capability answers the request of item i
    items,           \* the array returned by getInputData()
    heap,            \* heap[r]: the json object with reference r
    returnItems,     \* WebDAV's returnItems
    itemIndex,       \* the loop variable
    pc,              \* validate, loop, awaiting, done, aborted, raised
    baseRoot,        \* the base URL without its trailing slash
    cur,             \* the parameters of the item whose request is awaited
    inflight,        \* requests handed to the HTTP capability and not yet settled
    credReads,       \* number of getCredentials calls
    paramReads,      \* getNodeParameter calls, as <<name, itemIndex>>
    bufferReads,     \* getBinaryDataBuffer calls, by itemIndex
    sent,            \* every request handed to the HTTP capability, in order
    itemState,       \* itemState[i+1]: Pending, Sending, Succeeded, Failed
    thrown,          \* the exceptions execute() was rejected with
    result           \* the value execute() resolved with

vars == <<node, continueOnFail, creds, params, server, items, heap, returnItems, itemIndex,
          pc, baseRoot, cur, inflight, credReads, paramReads, bufferReads, sent, itemState,
          thrown, result>>

config == <<node, continueOnFail, creds, params, server>>

NoResult == [returned |-> FALSE, items |-> <<>>]

Range(f) == {f[i] : i \in DOMAIN f}

\* the state after getInputData(), for nItems input items
InitWith(nItems, hasBinary) ==
    /\ items = [i \in 1..nItems |-> InputItem(i, hasBinary)]
    /\ heap = [i \in 1..nItems |-> [payload |-> i]]
    /\ returnItems = <<>>
    /\ itemIndex = 0
    /\ pc = "validate"
    /\ baseRoot = <<>>
    /\ cur = Params("", <<>>, <<>>, <<>>)
    /\ inflight = {}
    /\ credReads = 0
    /\ paramReads = <<>>
    /\ bufferReads = <<>>
    /\ sent = <<>>
    /\ itemState = [i \in 1..nItems |-> "Pending"]
    /\ thrown = <<>>
    /\ result = NoResult

Init ==
    /\ node \in Nodes
    /\ continueOnFail \in BOOLEAN
    /\ creds \in BatchCreds
    /\ \E nItems \in 0..MaxItems :
         /\ params \in [1..nItems -> BatchParams(node)]
         /\ server \in [1..nItems -> BatchResponses]
         /\ InitWith(nItems, TRUE)

(***************************************************************************)
(* The host.                                                               *)
(***************************************************************************)
\* this.getInputData(inputIndex): the nodes declare one main input, so only
\* input 0 carries items
getInputData(its, inputIndex) == IF inputIndex = 0 THEN its ELSE <<>>

\* the parameters the host resolves for an index: those of the input item, or,
\* for a record appended to the input array, those of some item of the workflow
ParamChoices(idx) == IF idx < Len(params) THEN {params[idx + 1]} ELSE Range(params)

ServerChoices(idx) == IF idx < Len(server) THEN {server[idx + 1]} ELSE Range(server)

(***************************************************************************)
(* BatchRunner.                                                            *)
(***************************************************************************)
\* validation of credentials.baseUrl, before the loop
ValidateCredentials ==
    /\ pc = "validate"
    /\ credReads' = credReads + 1
    /\ IF BaseUrlInvalid(creds)
       THEN /\ thrown' = Append(thrown, NodeOperationError(PlainMessage("InvalidBaseUrl"), Absent))
            /\ pc' = "aborted"
            /\ UNCHANGED baseRoot
       ELSE /\ baseRoot' = BaseRootOf(Trim(creds.baseUrl))
            /\ pc' = "loop"
            /\ UNCHANGED thrown
    /\ UNCHANGED <<config, items, heap, returnItems, itemIndex, cur, inflight, paramReads,
                   bufferReads, sent, itemState, result>>

RethrownUndecorated(err, idx) ==
    [name |-> IF err.hasContext THEN err.name ELSE "NodeOperationError",
     message |-> err.message, hasContext |-> TRUE, itemIndex |-> err.itemIndex]

\* the exception the rethrow branch raises for a fault caught at index idx
Rethrown(err, idx) ==
    [name |-> IF err.hasContext THEN err.name ELSE "NodeOperationError",
     message |-> err.message, hasContext |-> TRUE, itemIndex |-> idx]

\* the record the continue-on-fail branch appends
ErrorRecord(n, err, idx) ==
    IF n = "WebDav"
    THEN [json |-> [error |-> err.message], binary |-> FALSE, hasError |-> FALSE,
          error |-> NoError, pairedItem |-> idx, owner |-> idx]
    ELSE [ref |-> getInputData(items, idx)[1].ref, hasBinary |-> FALSE, mimeType |-> "",
          isError |-> TRUE, error |-> err, pairedItem |-> idx, owner |-> idx]

\* the catch block of the item loop; cof is this.continueOnFail()
CatchWith(cof, err, idx) ==
    /\ itemState' = IF cof /\ node # "WebDav" /\ getInputData(items, idx) # <<>>
                    THEN Append([itemState EXCEPT ![idx + 1] = "Failed"], "Pending")
                    ELSE [itemState EXCEPT ![idx + 1] = "Failed"]
    /\ IF cof
       THEN IF node = "WebDav"
            THEN /\ returnItems' = Append(returnItems, ErrorRecord(node, err, idx))
                 /\ itemIndex' = idx + 1
                 /\ pc' = "loop"
                 /\ UNCHANGED <<items, thrown>>
            ELSE IF getInputData(items, idx) = <<>>
                 \* getInputData(itemIndex)[0].json throws inside the catch block
                 THEN /\ thrown' = Append(thrown, BuiltinError("TypeError", "CannotReadJson"))
                      /\ pc' = "raised"
                      /\ UNCHANGED <<items, returnItems, itemIndex>>
                 ELSE /\ items' = Append(items, ErrorRecord(node, err, idx))
                      /\ itemIndex' = idx + 1
                      /\ pc' = "loop"
                      /\ UNCHANGED <<returnItems, thrown>>
       ELSE /\ thrown' = Append(thrown, Rethrown(err, idx))
            /\ pc' = "raised"
            /\ UNCHANGED <<items, returnItems, itemIndex>>
    /\ UNCHANGED heap

CatchIgnoringPolicy(err, idx) == CatchWith(TRUE, err, idx)

Catch(err, idx) == CatchWith(continueOnFail, err, idx)

\* the end of a case of the switch: the result is stored and the loop goes on
Succeed(h, idx) ==
    /\ IF node = "WebDav"
       THEN /\ returnItems' = Append(returnItems,
                                     [json |-> h.json, binary |-> h.binary, hasError |-> FALSE,
                                      error |-> NoError, pairedItem |-> Absent,
                                      owner |-> idx])
            /\ UNCHANGED heap
       ELSE /\ heap' = [heap EXCEPT ![items[idx + 1].ref] = h.json @@ @]
            /\ UNCHANGED returnItems
    /\ itemState' = [itemState EXCEPT ![idx + 1] = "Succeeded"]
    /\ itemIndex' = idx + 1
    /\ pc' = "loop"
    /\ UNCHANGED <<items, thrown>>

AwaitRequestNotAwaited(p, req) ==
    /\ cur' = p
    /\ inflight' = inflight \cup {req}
    /\ sent' = Append(sent, req)
    /\ itemState' = [itemState EXCEPT ![itemIndex + 1] = "Sending"]
    /\ pc' = "loop"
    /\ itemIndex' = itemIndex + 1
    /\ UNCHANGED <<items, heap, returnItems, thrown>>

\* await <capability>(opts): the request is handed over and the run suspends
\* until it settles
AwaitRequest(p, req) ==
    /\ cur' = p
    /\ inflight' = inflight \cup {req}
    /\ sent' = Append(sent, req)
    /\ itemState' = [itemState EXCEPT ![itemIndex + 1] = "Sending"]
    /\ pc' = "awaiting"
    /\ UNCHANGED <<items, heap, returnItems, itemIndex, thrown>>

\* one iteration up to the await of the HTTP capability: the parameters are
\* read, the request is composed and sent, or a fault is caught
StartItem ==
    /\ pc = "loop"
    /\ itemIndex < Len(items)
    /\ \E p \in ParamChoices(itemIndex) :
         \E c \in {Compose(node, baseRoot, itemIndex, p, items[itemIndex + 1])} :
             /\ paramReads' = paramReads \o [i \in 1..Len(c.reads) |-> <<c.reads[i], itemIndex>>]
             /\ bufferReads' = IF c.buffer THEN Append(bufferReads, itemIndex) ELSE bufferReads
             /\ IF c.fault
                THEN /\ Catch(c.error, itemIndex)
                     /\ UNCHANGED <<cur, inflight, sent>>
                ELSE AwaitRequest(p, c.req)
    /\ UNCHANGED <<config, baseRoot, credReads, result>>

\* the awaited request settles: doRequest's catch translates a rejection, the
\* case of the switch handles a response
HttpResolve ==
    /\ pc = "awaiting"
    /\ \E req \in inflight, resp \in ServerChoices(itemIndex) :
         /\ req.itemIndex = itemIndex
         /\ inflight' = inflight \ {req}
         /\ IF resp.fails
            THEN /\ paramReads' = Append(paramReads, <<"resource", itemIndex>>)
                 /\ Catch(NodeOperationError(
                              toFriendlyError(node, cur.operation, resp.error, req.displayUrl,
                                              ResourceOf(node)), itemIndex), itemIndex)
            ELSE \E h \in {Handle(node, itemIndex, cur, items[itemIndex + 1], resp)} :
                     /\ UNCHANGED paramReads
                     /\ IF h.fault THEN Catch(h.error, itemIndex) ELSE Succeed(h, itemIndex)
    /\ UNCHANGED <<config, baseRoot, cur, credReads, bufferReads, sent, result>>

\* the output of the run: returnItems (WebDAV) or the input array itself
Output ==
    IF node = "WebDav" THEN returnItems
    ELSE [i \in 1..Len(items) |->
            [json |-> heap[items[i].ref], binary |-> items[i].hasBinary,
             hasError |-> items[i].isError, error |-> items[i].error,
             pairedItem |-> items[i].pairedItem, owner |-> items[i].owner]]

\* the loop condition fails: return [returnItems] / return [items]
Return ==
    /\ pc = "loop"
    /\ itemIndex >= Len(items)
    /\ result' = [returned |-> TRUE, items |-> Output]
    /\ pc' = "done"
    /\ UNCHANGED <<config, items, heap, returnItems, itemIndex, baseRoot, cur, inflight,
                   credReads, paramReads, bufferReads, sent, itemState, thrown>>

Next == ValidateCredentials \/ StartItem \/ HttpResolve \/ Return

Spec == Init /\ [][Next]_vars

TypeOK ==
    /\ pc \in {"validate", "loop", "awaiting", "done", "aborted", "raised"}
    /\ itemIndex \in 0..(Len(items))
    /\ Len(itemState) = Len(items)

(***************************************************************************)
(* Single-item runs over the full range of path and destination values.    *)
(***************************************************************************)
S_invalidAbsolute == S_https

PathInputs == {<<>>, S_slash, S_dir, S_spaced, S_coll, S_otherOrigin, S_sameOrigin,
               S_sameOriginUpper}

DestinationInputs == {S_dir, S_spaced, S_otherOrigin, S_sameOrigin, S_sameOriginUpper,
                      S_userinfo, S_invalidAbsolute}

ItemCreds == {Credential(TRUE, S_noProtocol), Credential(TRUE, S_baseA),
              Credential(TRUE, S_baseASlash), Credential(TRUE, S_baseUpper),
              Credential(TRUE, S_baseASlashes)}

ItemParams(n) ==
    IF n = "WebDav"
    THEN {Params(op, path, <<>>, <<>>) :
            op \in {"get", "put", "propfind", "mkcol", "delete", "bogus"}, path \in PathInputs}
         \cup {[Params(op, path, dest, <<>>) EXCEPT !.overwrite = ow] :
                 op \in {"move", "copy"}, path \in {S_dir, S_spaced, S_otherOrigin},
                 dest \in DestinationInputs, ow \in BOOLEAN}
    ELSE {Params(op, path, <<>>, S_id) :
            op \in Operations(n) \cup {"bogus"}, path \in PathInputs}

InitItem ==
    /\ node \in Nodes
    /\ continueOnFail \in BOOLEAN
    /\ creds \in ItemCreds
    /\ params \in [1..1 -> ItemParams(node)]
    /\ server \in [1..1 -> BatchResponses]
    /\ \E hasBinary \in BOOLEAN : InitWith(1, hasBinary)

SpecItem == InitItem /\ [][Next]_vars

(***************************************************************************)
(* Properties.                                                             *)
(***************************************************************************)
NumInputs == Len(params)

\* the input items, by index
Inputs == 0..(NumInputs - 1)

SentFor(i) == {k \in 1..Len(sent) : sent[k].itemIndex = i}

ReadsFor(i) == {k \in 1..Len(paramReads) : paramReads[k][2] = i}

InvalidBaseUrlError == NodeOperationError(PlainMessage("InvalidBaseUrl"), Absent)

\* C1: the credential is read exactly once, before any item is touched; with
\* a missing, blank or protocol-less baseUrl the run aborts with the 'Invalid
\* Base URL in credentials' fault, reads no parameter, sends no request and
\* produces no output, for any number of input items.
C1_InvalidBaseUrlAborts ==
    /\ credReads <= 1
    /\ (pc # "validate" \/ paramReads # <<>> \/ sent # <<>>) => credReads = 1
    /\ (creds \in InvalidCreds /\ pc # "validate") =>
          /\ pc = "aborted"
          /\ thrown = <<InvalidBaseUrlError>>
          /\ paramReads = <<>> /\ bufferReads = <<>>
          /\ sent = <<>> /\ inflight = {}
          /\ returnItems = <<>> /\ ~result.returned
          /\ \A i \in 1..Len(itemState) : itemState[i] = "Pending"

C1_Witness == creds = Credential(TRUE, S_noProtocol) /\ pc = "aborted" /\ NumInputs >= 2

\* C2: with continue-on-fail, a run over N items ends by returning exactly N
\* records, one per input item: its result or its error record.
C2_OneRecordPerItem ==
    (continueOnFail /\ pc \in {"done", "raised"}) =>
        /\ pc = "done"
        /\ Len(result.items) = NumInputs
        /\ \A i \in Inputs :
             Cardinality({k \in 1..Len(result.items) : result.items[k].owner = i}) = 1

\* C3: with continue-on-fail, the output keeps the input order: the record of
\* item i comes before the record of item j whenever i < j.
C3_OutputInInputOrder ==
    (continueOnFail /\ result.returned) =>
        \A a, b \in 1..Len(result.items) :
            a < b => result.items[a].owner <= result.items[b].owner

\* C4: without continue-on-fail the run stops at the first failing item k: it
\* raises, every earlier item succeeded, and no parameter is read and no
\* request is sent for an item after k.
C4_StopsAtFirstFailure ==
    (~continueOnFail /\ \E i \in 1..Len(itemState) : itemState[i] = "Failed") =>
        /\ pc = "raised"
        /\ Len(thrown) = 1
        /\ itemState[itemIndex + 1] = "Failed"
        /\ \A i \in 1..Len(itemState) :
             /\ i < itemIndex + 1 => itemState[i] = "Succeeded"
             /\ i > itemIndex + 1 => itemState[i] = "Pending"
        /\ \A k \in 1..Len(paramReads) : paramReads[k][2] <= itemIndex
        /\ \A k \in 1..Len(sent) : sent[k].itemIndex <= itemIndex

C4_Witness ==
    /\ ~continueOnFail /\ pc = "raised" /\ itemIndex = 0 /\ NumInputs >= 2
    /\ sent # <<>>

\* C5: every request handed to the HTTP capability goes to the origin of
\* baseRoot, whatever the path, home-set, collection or destination value.
C5_RequestsStayOnBaseOrigin ==
    \A r \in inflight : ParseUrl(r.url).ok /\ Origin(r.url) = Origin(baseRoot)

\* C6: in the calendar and the address-book node, an item whose home-set or
\* collection path is an absolute http(s) URL fails with the explicit
\* rejection and no request is sent for it.
C6_AbsolutePathRejected ==
    \A i \in Inputs :
        (/\ node \in {"CalDav", "CardDav"}
         /\ params[i + 1].operation \in Operations(node)
         /\ IsAbsoluteUrl(params[i + 1].path)
         /\ itemState[i + 1] # "Pending") =>
            /\ itemState[i + 1] = "Failed"
            /\ SentFor(i) = {}

\* the fault recorded for item i: the exception raised, or the error of the
\* record appended under continue-on-fail
FaultKindOf(i) ==
    IF ~continueOnFail THEN thrown[1].message.kind
    ELSE IF node = "WebDav" THEN returnItems[i + 1].json.error.kind
    ELSE items[Len(items)].error.message.kind

CrossOriginDestination(p) ==
    /\ p.operation \in {"move", "copy"}
    /\ IsAbsoluteUrl(p.destination)
    /\ ParseUrl(p.destination).ok
    /\ Origin(p.destination) # Origin(baseRoot)

\* C7: a move or copy whose destination is an absolute URL on another origin
\* than baseRoot fails with 'Destination must be on the same server as the
\* Base URL' and sends nothing; the Destination header of a request that is
\* sent is an absolute URL on baseRoot's origin.
C7_DestinationSameOrigin ==
    /\ \A i \in Inputs :
         (/\ node = "WebDav"
          /\ CrossOriginDestination(params[i + 1])
          /\ itemState[i + 1] # "Pending") =>
             /\ itemState[i + 1] = "Failed"
             /\ SentFor(i) = {}
             /\ FaultKindOf(i) = "DestinationNotSameServer"
    /\ \A k \in 1..Len(sent) :
         sent[k].method \in {"MOVE", "COPY"} =>
             /\ IsAbsoluteUrl(sent[k].destination)
             /\ ParseUrl(sent[k].destination).ok
             /\ Origin(sent[k].destination) = Origin(baseRoot)

C7_Witness ==
    /\ node = "WebDav" /\ pc = "raised"
    /\ params[1].operation = "move" /\ params[1].destination = S_userinfo
    /\ sent = <<>>

\* C8: under continue-on-fail, every failed item has an error record in the
\* output that is paired with its index and carries the item's input json.
C8_ErrorRecordKeepsPayload ==
    (continueOnFail /\ pc \in {"done", "raised"}) =>
        \A i \in Inputs :
            itemState[i + 1] = "Failed" =>
                /\ result.returned
                /\ \E k \in 1..Len(result.items) :
                     /\ result.items[k].pairedItem = i
                     /\ result.items[k].json = [payload |-> i + 1]

\* C9: a run that aborts on a failing item returns nothing and raises exactly
\* one exception, whose context.itemIndex is the index of the failing item,
\* whatever raised the fault.
C9_AbortCarriesItemIndex ==
    (~continueOnFail /\ pc = "raised") =>
        /\ ~result.returned /\ result.items = <<>>
        /\ Len(thrown) = 1
        /\ thrown[1].hasContext
        /\ thrown[1].itemIndex = itemIndex
        /\ itemState[itemIndex + 1] = "Failed"

C9_Witness ==
    /\ ~continueOnFail /\ pc = "raised" /\ itemIndex = 1
    /\ thrown[1].message.kind \in {"AbsoluteUrlsNotAllowed", "URIMalformed"}

\* C10: items are processed one at a time in input order: at most one
\* request is in flight, it belongs to the current item, every earlier item
\* has succeeded or failed, and requests are sent in increasing index order.
C10_OneRequestAtATime ==
    /\ Cardinality(inflight) <= 1
    /\ \A r \in inflight : r.itemIndex = itemIndex /\ pc = "awaiting"
    /\ \A i \in 1..Len(itemState) :
         itemState[i] # "Pending" =>
             \A j \in 1..(i - 1) : itemState[j] \in {"Succeeded", "Failed"}
    /\ \A a, b \in 1..Len(sent) : a < b => sent[a].itemIndex < sent[b].itemIndex

C10_Witness ==
    /\ pc = "awaiting" /\ itemIndex = 1
    /\ Cardinality(inflight) = 1 /\ Len(sent) = 2

\* the fault item i meets on its own, from its parameters and the answer to
\* its request alone (NoError when it succeeds)
OwnFault(i, c, resp) ==
    IF c.fault THEN c.error
    ELSE IF resp.fails
    THEN NodeOperationError(toFriendlyError(node, params[i + 1].operation, resp.error,
                                            c.req.displayUrl, ResourceOf(node)), i)
    ELSE Handle(node, i, params[i + 1], InputItem(i + 1, TRUE), resp).error

\* the output record of item i as its own parameters and response determine it
OwnRecordOf(i, c, resp, err) ==
    IF err # NoError
    THEN [json |-> IF node = "WebDav" THEN [error |-> err.message] ELSE [payload |-> i + 1],
          binary |-> FALSE, hasError |-> node # "WebDav",
          error |-> IF node = "WebDav" THEN NoError ELSE err,
          pairedItem |-> i, owner |-> i]
    ELSE LET h == Handle(node, i, params[i + 1], InputItem(i + 1, TRUE), resp)
         IN  [json |-> IF node = "WebDav" THEN h.json ELSE h.json @@ [payload |-> i + 1],
              binary |-> IF node = "WebDav" THEN h.binary ELSE TRUE,
              hasError |-> FALSE, error |-> NoError, pairedItem |-> Absent, owner |-> i]

OwnRecord(i) ==
    LET c == Compose(node, baseRoot, i, params[i + 1], InputItem(i + 1, TRUE))
    IN  OwnRecordOf(i, c, server[i + 1], OwnFault(i, c, server[i + 1]))

\* C11: under continue-on-fail the output record of an item that succeeded
\* is the one its own parameters and the answer to its own request determine,
\* whether the other items of the run succeed or fail.
C11_RecordIndependentOfOtherItems ==
    (continueOnFail /\ pc \in {"done", "raised"}) =>
        \A i \in Inputs :
            itemState[i + 1] = "Succeeded" =>
                /\ result.returned
                /\ \E k \in 1..Len(result.items) : result.items[k] = OwnRecord(i)

(***************************************************************************)
(* Single-item runs over path values: spaces, reserved characters, '%'     *)
(* signs, percent-encoded segments and empty segments.                     *)
(***************************************************************************)
S_myCalendar == <<"c", "a", "l", "e", "n", "d", "a", "r", "s", "/", "u", "s", "e", "r", "/", "M", "y", " ", "C", "a", "l", "e", "n", "d", "a", "r">>
S_testAmp == <<"F", "i", "l", "e", "s", "/", "t", "e", "s", "t", "&", "f", "i", "l", "e", ".", "t", "x", "t">>
S_encoded == <<"/", "c", "a", "l", "e", "n", "d", "a", "r", "s", "/", "u", "s", "e", "r", "/", "M", "y", "%", "2", "0", "C", "a", "l", "e", "n", "d", "a", "r">>
S_emptySegment == <<"a", "/", "/", "b">>
S_lonePercent == <<"d", "%">>
S_badEscape == <<"%", "z", "z", "/", "x">>
S_encodedSlash == <<"a", "%", "2", "F", "b">>
S_lowerHex == <<"a", "%", "2", "f", "b">>
S_doubleEncoded == <<"%", "2", "5", "2", "0">>
S_reserved == <<"x", "?", "y", "#", "z">>
S_trailing == <<"/", "d", " ", "x", "/">>
S_mixed == <<"%", "2", "0", "%">>

NormalizeInputs == {<<>>, S_slash, S_dir, S_spaced, S_coll, S_myCalendar, S_testAmp, S_encoded,
                    S_emptySegment, S_lonePercent, S_badEscape, S_encodedSlash, S_lowerHex,
                    S_doubleEncoded, S_reserved, S_trailing, S_mixed}

\* the operations whose request URL is the normalized path parameter
PathOperations(n) ==
    CASE n = "WebDav" -> {"get", "propfind", "delete"}
      [] n = "CalDav" -> {"getCalendars", "getEvents"}
      [] OTHER -> {"getAddressBooks", "getContacts"}

PathParams(n) == {Params(op, path, <<>>, <<>>) : op \in PathOperations(n), path \in NormalizeInputs}

InitPath ==
    /\ node \in Nodes
    /\ continueOnFail \in BOOLEAN
    /\ creds \in {Credential(TRUE, S_baseA), Credential(TRUE, S_baseASlash)}
    /\ params \in [1..1 -> PathParams(node)]
    /\ server \in [1..1 -> BatchResponses]
    /\ InitWith(1, TRUE)

SpecPath == InitPath /\ [][Next]_vars

\* the path of the request sent for item i: its URL without baseRoot
SentPath(k) == Drop(sent[k].url, Len(baseRoot))

\* C12: normalizePath is idempotent on every path that is not an absolute
\* URL: the normalized path of a request is a fixed point of normalizePath,
\* and normalizing the path parameter twice gives what normalizing it once
\* gives.
C12_NormalizePathIdempotent ==
    /\ \A i \in Inputs :
         ~IsAbsoluteUrl(params[i + 1].path) =>
             /\ normalizePath(node, params[i + 1].path).ok
             /\ normalizePath(node, normalizePath(node, params[i + 1].path).val)
                  = normalizePath(node, params[i + 1].path)
    /\ \A k \in 1..Len(sent) :
         /\ StartsWith(sent[k].url, baseRoot)
         /\ normalizePath(node, SentPath(k)) = [ok |-> TRUE, val |-> SentPath(k)]

C12_Witness ==
    /\ Len(sent) = 1 /\ params[1].path = S_mixed
    /\ SentPath(1) = <<"/", "%", "2", "5", "2", "0", "%", "2", "5">>

\* the reference definition of the normalizer: a walk over the characters
\* that encodes each segment as it is closed by '/' or by the end of the path
ReferenceSegment(seg) ==
    IF seg = <<>> THEN <<>>
    ELSE IF decodeURIComponent(seg).ok
    THEN encodeURIComponent(decodeURIComponent(seg).val)
    ELSE encodeURIComponent(seg)

RECURSIVE ReferenceWalk(_, _)
ReferenceWalk(s, seg) ==
    IF s = <<>> THEN ReferenceSegment(seg)
    ELSE IF Head(s) = "/"
    THEN ReferenceSegment(seg) \o <<"/">> \o ReferenceWalk(Tail(s), <<>>)
    ELSE ReferenceWalk(Tail(s), Append(seg, Head(s)))

ReferenceNormalize(p) ==
    IF p = <<>> \/ p = <<"/">> THEN <<"/">>
    ELSE <<"/">> \o ReferenceWalk(IF Head(p) = "/" THEN Tail(p) ELSE p, <<>>)

\* the results the specification states for given paths
StatedResults ==
    {<<<<>>, <<"/">>>>, <<<<"/">>, <<"/">>>>,
     <<S_myCalendar, S_encoded>>,
     <<S_testAmp, <<"/", "F", "i", "l", "e", "s", "/", "t", "e", "s", "t", "%", "2", "6", "f", "i", "l", "e", ".", "t", "x", "t">>>>,
     <<S_encoded, S_encoded>>,
     <<S_emptySegment, <<"/", "a", "/", "/", "b">>>>}

ChildOperations == {"createEvent", "updateEvent", "deleteEvent",
                    "createContact", "updateContact", "deleteContact"}

\* parent path and child name joined by a single '/'
SingleSlashJoin(parent, child) ==
    (IF EndsWith(parent, S_slash) THEN parent ELSE parent \o S_slash) \o child

\* the URL stated for the child resource of item i
StatedChildUrl(i) ==
    baseRoot \o ReferenceNormalize(
        SingleSlashJoin(LeadingSlash(params[i + 1].path),
                        params[i + 1].id \o (IF node = "CalDav" THEN S_ics ELSE S_vcf)))

\* C14: the request for an event or a contact goes to baseRoot followed by the
\* normalized parent path, a single '/', the identifier and the extension
\* (.ics / .vcf); a create request is a PUT with Content-Type text/calendar
\* (text/vcard for a contact).
C14_ChildUrlSingleSlash ==
    \A k \in 1..Len(sent) :
        (/\ sent[k].itemIndex \in Inputs
         /\ params[sent[k].itemIndex + 1].operation \in ChildOperations
         /\ ~IsAbsoluteUrl(params[sent[k].itemIndex + 1].path)) =>
            /\ sent[k].url = StatedChildUrl(sent[k].itemIndex)
            /\ params[sent[k].itemIndex + 1].operation \in {"createEvent", "createContact"} =>
                  /\ sent[k].method = "PUT"
                  /\ sent[k].contentType
                       = (IF node = "CalDav" THEN "text/calendar" ELSE "text/vcard")

(***************************************************************************)
(* Single-item runs whose request is rejected, over the shapes of the      *)
(* rejection: message text, code, and status at the three nesting levels.  *)
(***************************************************************************)
S_invalidUrlText == <<"I", "n", "v", "a", "l", "i", "d", " ", "U", "R", "L">>
S_invalidUrlInside == <<"x", ":", " ", "i", "n", "v", "a", "l", "i", "d", " ", "u", "r", "l">>
S_notFoundText == <<"N", "o", "t", " ", "F", "o", "u", "n", "d">>
S_unavailableText == <<"U", "n", "a", "v", "a", "i", "l", "a", "b", "l", "e">>

ErrorMessages == {<<>>, <<"x">>, S_invalidUrlText, S_invalidUrlInside}

ErrorCodes == {"", "ENOTFOUND", "ECONNREFUSED", "ETIMEDOUT", "EPIPE"}

RawErrors ==
    {RawError(m, c, s1, s2, s3, t2, t3) :
        m \in ErrorMessages, c \in ErrorCodes,
        s1 \in {Absent, 404}, s2 \in {Absent, 500}, s3 \in {Absent, 503},
        t2 \in {Undefined, <<>>, S_notFoundText}, t3 \in {Undefined, S_unavailableText}}

FailParams(n) ==
    {Params(op, path, <<>>, <<>>) :
        op \in (IF n = "WebDav" THEN {"get"}
                ELSE IF n = "CalDav" THEN {"getCalendars"} ELSE {"getAddressBooks"}),
        path \in {S_dir, S_spaced}}

InitFail ==
    /\ node \in Nodes
    /\ continueOnFail \in BOOLEAN
    /\ creds = Credential(TRUE, S_baseASlash)
    /\ params \in [1..1 -> FailParams(node)]
    /\ server \in [1..1 -> {Response(TRUE, e, Absent, FALSE, "", <<>>) : e \in RawErrors}]
    /\ InitWith(1, TRUE)

SpecFail == InitFail /\ [][Next]_vars

TranslatorKinds == <<"InvalidURL", "HostNotFound", "ConnectionRefused", "ConnectionTimedOut",
                     "HTTP", "Original">>

\* the messages of the translator that the run raised or recorded
TranslatedMessages ==
    {m \in {thrown[k].message : k \in 1..Len(thrown)}
            \cup {returnItems[k].json.error :
                    k \in {j \in 1..Len(returnItems) : "error" \in DOMAIN returnItems[j].json}}
            \cup {items[k].error.message : k \in {j \in 1..Len(items) : items[j].isError}} :
        m.kind \in Range(TranslatorKinds)}

\* the rejection the single item of a run meets, and its message text
Rejection == server[1].error

RejectionText == IF Rejection.message # <<>> THEN Rejection.message ELSE Rejection.asString

SaysInvalidUrl == Includes(LowerStr(RejectionText), S_invalidUrl)

\* C15 as stated: a rejection whose code is ENOTFOUND is always rendered as
\* 'Host not found', whatever message text and status it also carries.
C15_HostNotFoundForEveryMessage ==
    \A m \in TranslatedMessages : Rejection.code = "ENOTFOUND" => m.kind = "HostNotFound"

\* C15: a rejection whose code is ENOTFOUND and whose message text does not
\* contain 'Invalid URL' is rendered as 'Host not found', whatever status it
\* also carries at any nesting level.
C15_HostNotFoundUnlessInvalidUrl ==
    \A m \in TranslatedMessages :
        (Rejection.code = "ENOTFOUND" /\ ~SaysInvalidUrl) => m.kind = "HostNotFound"

C15_Witness ==
    /\ Rejection.code = "ENOTFOUND" /\ Rejection.message = <<"x">>
    /\ Rejection.statusCode = 404 /\ Rejection.causeStatus = 503
    /\ \E m \in TranslatedMessages : m.kind = "HostNotFound"

\* the statuses and status texts a rejection carries, at any nesting level
StatusesOf(e) == {e.statusCode, e.responseStatus, e.causeStatus} \ {Absent}

StatusTextsOf(e) == {e.responseStatusText, e.causeStatusText} \ {Undefined}

\* the rules a rejection matches
MatchedRules(e) ==
    {"Original"}
    \cup (IF SaysInvalidUrl THEN {"InvalidURL"} ELSE {})
    \cup (IF e.code = "ENOTFOUND" THEN {"HostNotFound"} ELSE {})
    \cup (IF e.code = "ECONNREFUSED" THEN {"ConnectionRefused"} ELSE {})
    \cup (IF e.code = "ETIMEDOUT" THEN {"ConnectionTimedOut"} ELSE {})
    \cup (IF StatusesOf(e) # {} THEN {"HTTP"} ELSE {})

\* the earliest rule, in priority order, among those matched
FirstMatch(e) ==
    TranslatorKinds[CHOOSE i \in 1..Len(TranslatorKinds) :
                        /\ TranslatorKinds[i] \in MatchedRules(e)
                        /\ \A j \in 1..(i - 1) : TranslatorKinds[j] \notin MatchedRules(e)]

\* C16: the message of a rejected request is rendered by the earliest rule it
\* matches, in the order Invalid URL, ENOTFOUND, ECONNREFUSED, ETIMEDOUT, HTTP
\* status (top level, nested response or nested cause), original message; the
\* HTTP rule renders a status the rejection carries and, at most, a status
\* text it carries; the last rule renders the original text.
C16_FirstMatchingRuleWins ==
    \A m \in TranslatedMessages :
        /\ m.kind = FirstMatch(Rejection)
        /\ m.kind = "HTTP" =>
              /\ m.status \in StatusesOf(Rejection)
              /\ m.text \in StatusTextsOf(Rejection) \cup {<<>>}
        /\ m.kind = "Original" => m.text = RejectionText

C16_Witness ==
    /\ Rejection.code = "EPIPE" /\ Rejection.message = <<"x">>
    /\ Rejection.statusCode = Absent /\ Rejection.responseStatus = Absent
    /\ Rejection.causeStatus = 503
    /\ \E m \in TranslatedMessages : m.kind = "HTTP" /\ m.status = 503

C18_InvalidUrlNamesRelativePath ==
    \A m \in TranslatedMessages :
        m.kind = "InvalidURL" =>
            /\ m.protocol = ProtocolLabel(node)
            /\ m.op = params[1].operation
            /\ m.resource = ResourceOf(node)
            /\ m.url = ReferenceNormalize(params[1].path)

ListingOperations == {"propfind", "getCalendars", "getEvents", "getAddressBooks", "getContacts"}

\* item i is a listing whose request the server answered
AnsweredListing(i) ==
    /\ params[i + 1].operation \in ListingOperations
    /\ SentFor(i) # {}
    /\ ~server[i + 1].fails
    /\ itemState[i + 1] \in {"Succeeded", "Failed"}

\* the records extracted for item i, once it succeeded
ListedRecords(i) ==
    CASE params[i + 1].operation = "propfind" ->
           (CHOOSE r \in Range(returnItems) : r.owner = i).json.properties
      [] params[i + 1].operation = "getCalendars" -> heap[i + 1].calendars
      [] params[i + 1].operation = "getEvents" -> heap[i + 1].events
      [] params[i + 1].operation = "getAddressBooks" -> heap[i + 1].addressBooks
      [] OTHER -> heap[i + 1].contacts

\* the blocks of a document that contain an href, in document order
RECURSIVE HrefBlocks(_)
HrefBlocks(xml) ==
    IF xml = <<>> THEN <<>>
    ELSE (IF Head(xml).hasHref THEN <<Head(xml)>> ELSE <<>>) \o HrefBlocks(Tail(xml))

WellEncoded(xml) == \A k \in 1..Len(xml) : decodeURIComponent(xml[k].href).ok

\* C19: a listing answered with a multi-status document (whose hrefs are valid
\* percent-encodings) yields one record per block that contains an href, in
\* document order, for every resource kind; blocks without href yield none.
C19_OneRecordPerHrefBlock ==
    \A i \in Inputs :
        (AnsweredListing(i) /\ WellEncoded(server[i + 1].xml)) =>
            /\ itemState[i + 1] = "Succeeded"
            /\ Len(ListedRecords(i)) = Len(HrefBlocks(server[i + 1].xml))
            /\ \A k \in 1..Len(ListedRecords(i)) :
                 ListedRecords(i)[k].href
                   = decodeURIComponent(HrefBlocks(server[i + 1].xml)[k].href).val

\* C20: the extraction never makes an item fail: a listing whose request the
\* server answered succeeds with a list of records, whatever the document
\* holds, an href that is not a valid percent-encoding included.
C20_ExtractorNeverThrows ==
    \A i \in Inputs :
        AnsweredListing(i) =>
            /\ itemState[i + 1] = "Succeeded"
            /\ \A k \in 1..Len(thrown) : thrown[k].name # "URIError"

\* the message of every fault the run raised or recorded
FaultMessages ==
    {thrown[k].message : k \in 1..Len(thrown)}
    \cup {returnItems[k].json.error :
            k \in {j \in 1..Len(returnItems) : "error" \in DOMAIN returnItems[j].json}}
    \cup {items[k].error.message : k \in {j \in 1..Len(items) : items[j].isError}}

\* the faults that are not faults of an operation on an item: the credential
\* check before the loop, and the failure of the catch block itself
OutsideOperation == {"InvalidBaseUrl", "CannotReadJson"}

\* C21: every fault of an item other than operation-not-supported (missing
\* binary input, unexpected content type, no data, absolute-URL path,
\* cross-origin destination, transport and HTTP faults) reaches the batch loop
\* as a message of the translator that names the operation, the resource and
\* the URL.
C21_FaultsAreTranslated ==
    \A m \in FaultMessages :
        m.kind \notin OutsideOperation \cup {"OperationNotSupported"} =>
            /\ m.kind \in Range(TranslatorKinds)
            /\ m.protocol = ProtocolLabel(node)
            /\ m.op # "" /\ m.resource # "" /\ m.url # <<>>

\* an output record that reports a fault, and the fault text it carries
IsErrorRecord(r) == r.hasError \/ "error" \in DOMAIN r.json

ErrorTextOf(r) == IF r.hasError THEN r.error.message ELSE r.json.error

\* the fault item i met, from its own parameters and response
FaultOf(i) ==
    OwnFault(i, Compose(node, baseRoot, i, params[i + 1], InputItem(i + 1, TRUE)),
             server[i + 1])

FailedInputs == {i \in Inputs : itemState[i + 1] = "Failed"}

\* C22: under continue-on-fail the run returns, every failed item has an
\* error record in the output that carries the text of the fault that made it
\* fail, and there are as many error records as failed items.
C22_NoFaultSwallowed ==
    (continueOnFail /\ pc \in {"done", "raised"}) =>
        /\ result.returned
        /\ Cardinality({k \in 1..Len(result.items) : IsErrorRecord(result.items[k])})
             = Cardinality(FailedInputs)
        /\ \A i \in FailedInputs :
             \E k \in 1..Len(result.items) :
                 /\ IsErrorRecord(result.items[k])
                 /\ result.items[k].pairedItem = i
                 /\ ErrorTextOf(result.items[k]) = FaultOf(i).message

BufferReadsFor(i) == {k \in 1..Len(bufferReads) : bufferReads[k] = i}

ContentTypes == {"", "text/plain", "application/json", "Application/JSON; charset=utf-8"}

DownloadResponses ==
    {Response(FALSE, NoRawError, 200, hasData, ct, <<>>) :
        hasData \in BOOLEAN, ct \in ContentTypes}
    \cup {Response(TRUE, RawError(<<"x">>, "", 404, Absent, Absent, Undefined, Undefined),
                   Absent, FALSE, "", <<>>)}

InitDownload ==
    /\ node = "WebDav"
    /\ continueOnFail \in BOOLEAN
    /\ creds \in {Credential(TRUE, S_baseA), Credential(TRUE, S_baseASlash)}
    /\ params \in [1..1 -> {Params("get", path, <<>>, <<>>) : path \in NormalizeInputs}]
    /\ server \in [1..1 -> DownloadResponses]
    /\ InitWith(1, TRUE)

SpecDownload == InitDownload /\ [][Next]_vars

\* the content types that announce JSON
JsonContentTypes == {"application/json", "Application/JSON; charset=utf-8"}

\* the records of item i in returnItems that are not error records
SuccessRecordsOf(i) ==
    {k \in 1..Len(returnItems) :
        returnItems[k].owner = i /\ "error" \notin DOMAIN returnItems[k].json}

BinaryRecordsOf(i) == {k \in 1..Len(returnItems) : returnItems[k].owner = i /\ returnItems[k].binary}

\* C24: a download answered without data fails with the no-data fault, one
\* answered with a JSON content type fails with the expected-binary fault, and
\* neither emits a success or binary record; any other answer emits exactly
\* one record, with the binary payload and the metadata of the answer.
C24_DownloadRejectsNoDataAndJson ==
    \A i \in Inputs :
        (/\ node = "WebDav" /\ params[i + 1].operation = "get"
         /\ SentFor(i) # {} /\ ~server[i + 1].fails
         /\ itemState[i + 1] \in {"Succeeded", "Failed"}) =>
            IF ~server[i + 1].hasData \/ server[i + 1].contentType \in JsonContentTypes
            THEN /\ itemState[i + 1] = "Failed"
                 /\ FaultKindOf(i) = (IF ~server[i + 1].hasData THEN "NoDataReturned"
                                      ELSE "ExpectedBinaryGotJson")
                 /\ SuccessRecordsOf(i) = {} /\ BinaryRecordsOf(i) = {}
            ELSE /\ itemState[i + 1] = "Succeeded"
                 /\ Cardinality(SuccessRecordsOf(i)) = 1
                 /\ \A k \in SuccessRecordsOf(i) :
                      /\ returnItems[k].binary
                      /\ returnItems[k].json.path = params[i + 1].path
                      /\ returnItems[k].json.statusCode = server[i + 1].status
                      /\ returnItems[k].json.contentType
                           = (IF server[i + 1].contentType = "" THEN "application/octet-stream"
                              ELSE server[i + 1].contentType)

C24_Witness ==
    /\ continueOnFail /\ pc = "done" /\ server[1].hasData
    /\ server[1].contentType = "Application/JSON; charset=utf-8"
    /\ itemState[1] = "Failed" /\ Len(returnItems) = 1

\* C25: the item loop visits only the input items and its bound does not
\* grow while it runs: the iterated array keeps the length of the input, and
\* no parameter is read and no request is sent for an index past the input.
C25_LoopBoundFixed ==
    /\ Len(items) = NumInputs
    /\ itemIndex <= NumInputs
    /\ \A k \in 1..Len(paramReads) : paramReads[k][2] \in Inputs
    /\ \A k \in 1..Len(sent) : sent[k].itemIndex \in Inputs

\* C26: at most one request is sent per input item (a failed send is not
\* retried), and none is sent on behalf of an error record.
C26_OneRequestPerInputItem ==
    /\ \A a, b \in 1..Len(sent) : sent[a].itemIndex = sent[b].itemIndex => a = b
    /\ \A k \in 1..Len(sent) : ~items[sent[k].itemIndex + 1].isError
    /\ Len(sent) <= NumInputs

\* C27: a successful operation only adds fields: the field the input json of
\* an item held is still present, with the same value, in the output record
\* of that item.
C27_SuccessKeepsInputFields ==
    result.returned =>
        \A i \in Inputs :
            itemState[i + 1] = "Succeeded" =>
                \E k \in 1..Len(result.items) :
                    /\ result.items[k].owner = i
                    /\ "payload" \in DOMAIN result.items[k].json
                    /\ result.items[k].json.payload = i + 1

\* C28: an item that fails keeps its input record: its json holds exactly the
\* fields of the input, and no success record is emitted for it.
C28_FailedItemUnchanged ==
    \A i \in FailedInputs :
        /\ heap[i + 1] = [payload |-> i + 1]
        /\ SuccessRecordsOf(i) = {}

\* C29: an item whose operation is not one of the node's operations causes
\* no request and is a hard fault: once it was processed the run has stopped
\* with 'Operation <name> not supported', with or without continue-on-fail.
C29_UnsupportedOperationIsHardFault ==
    \A i \in Inputs :
        (params[i + 1].operation \notin Operations(node) /\ itemState[i + 1] # "Pending") =>
            /\ SentFor(i) = {}
            /\ itemState[i + 1] = "Failed"
            /\ pc = "raised"
            /\ Len(thrown) = 1
            /\ thrown[1].message.kind = "OperationNotSupported"
            /\ thrown[1].message.op = params[i + 1].operation

\* C30: for every accepted baseUrl, one that ends in several '/' included,
\* baseRoot does not end with '/', and the URL of a request composed from a
\* path is baseRoot followed by a path that starts with '/'.
C30_BaseRootWithoutTrailingSlash ==
    pc \notin {"validate", "aborted"} =>
        /\ ~EndsWith(baseRoot, S_slash)
        /\ \A k \in 1..Len(sent) :
             (sent[k].itemIndex \in Inputs /\ ~IsAbsoluteUrl(params[sent[k].itemIndex + 1].path)) =>
                 /\ StartsWith(sent[k].url, baseRoot)
                 /\ StartsWith(SentPath(k), S_slash)

====
